---- MODULE Spec2Model ----
(***************************************************************************)
(* Hook State Controller of claude-hooks-manager: the enable / disable /   *)
(* create / remove commands of the CLI and the files they keep for every   *)
(* hook in ~/.claude/hooks: <name>.py, <name>.py.original and the legacy   *)
(* <name>.py.disabled.                                                     *)
(***************************************************************************)
EXTENDS Integers, Sequences, FiniteSets, TLC

\* ---------------------------------------------------------------- bounds
NumContents == 1    \* distinct user-written implementations per directory

\* the hooks of the registry; every handler works on the three paths built
\* from the one name it is given
Hooks == {1}
UserContents == 1..NumContents

\* ------------------------------------------------------------- files
\* A file is its text and its permission bits.  The text is one of: the
\* stub template instantiated for hook `tag`, the createHook template
\* instantiated for hook `tag`, the implementation shipped for hook `tag`,
\* or a user-written implementation number `tag`.
ModeExec == 755
ModeDefault == 644

Absent == [kind |-> "absent", tag |-> 0, mode |-> 0]

File(kind, tag, mode) == [kind |-> kind, tag |-> tag, mode |-> mode]

exists(f) == f.kind # "absent"

\* content.includes('Stub for disabled hook:')
IsStub(f) == f.kind = "stub"

\* the text of the stub names the hook and carries the words
\* "is currently disabled" / "has been disabled"
StubNames(f, h) == f.kind = "stub" /\ f.tag = h
StubSaysDisabled(f) == f.kind = "stub"

Paths == {"hookPath", "originalPath", "disabledPath"}

EmptyDir == [p \in Paths |-> Absent]

\* ------------------------------------------------------------- syscalls
\* fs.renameSync(from, to): replaces whatever is at `to`
renameSync(d, from, to) == [d EXCEPT ![to] = d[from], ![from] = Absent]

\* fs.unlinkSync(p)
unlinkSync(d, p) == [d EXCEPT ![p] = Absent]

\* fs.writeFileSync(p, text): a new file gets the default mode, an existing
\* file keeps its mode
writeFileSync(d, p, kind, tag) ==
    [d EXCEPT ![p] = File(kind, tag, IF exists(d[p]) THEN d[p].mode ELSE ModeDefault)]

\* fs.chmodSync(p, mode)
chmodSync(d, p, mode) == [d EXCEPT ![p] = [d[p] EXCEPT !.mode = mode]]

\* One step of a handler: a mutating system call.
Step(op, a, b) == [op |-> op, a |-> a, b |-> b]

ApplyStep(d, s, h) ==
    CASE s.op = "rename" -> renameSync(d, s.a, s.b)
      [] s.op = "unlink" -> unlinkSync(d, s.a)
      [] s.op = "writeStub" -> writeFileSync(d, s.a, "stub", h)
      [] s.op = "writeTemplate" -> writeFileSync(d, s.a, "template", h)
      [] s.op = "chmod" -> chmodSync(d, s.a, ModeExec)

\* the directory after the first n steps of `steps`
RECURSIVE RunSteps(_, _, _, _)
RunSteps(d, steps, n, h) ==
    IF n = 0 THEN d
    ELSE ApplyStep(RunSteps(d, steps, n - 1, h), steps[n], h)

\* ------------------------------------------------------------- faults
\* What the environment does to one run of a handler: nothing, a system
\* call that throws (FilesystemError), or the process killed before a
\* system call.  `at` is the index of the system call concerned.
MaxSteps == 3
NoFault == [kind |-> "none", at |-> 0]
Faults == {NoFault} \cup [kind : {"throw", "kill"}, at : 1..MaxSteps]

ExitOk == 0
ExitError == 1
ExitKilled == 137

\* result of running the steps of a try block under a fault: the directory,
\* the message printed and the exit status of the process
Outcome(dir, msg, code) == [dir |-> dir, msg |-> msg, code |-> code]

TryBlock(d, steps, fault, h, okMsg) ==
    CASE fault.kind = "none" -> Outcome(RunSteps(d, steps, Len(steps), h), okMsg, ExitOk)
      [] fault.kind = "throw" -> Outcome(RunSteps(d, steps, fault.at - 1, h), "failed", ExitOk)
      [] fault.kind = "kill" -> Outcome(RunSteps(d, steps, fault.at - 1, h), "none", ExitKilled)

\* error.message of the system call that threw, which the catch block prints
\* after "Failed to ...": the name of the call and the path(s) it was given
errorMessage(s) ==
    CASE s.op = "rename" -> [syscall |-> "rename", paths |-> {s.a, s.b}]
      [] s.op = "unlink" -> [syscall |-> "unlink", paths |-> {s.a}]
      [] s.op \in {"writeStub", "writeTemplate"} -> [syscall |-> "open", paths |-> {s.a}]
      [] s.op = "chmod" -> [syscall |-> "chmod", paths |-> {s.a}]

\* a fault can only hit a system call the run makes
FaultFits(fault, steps) == fault.kind = "none" \/ fault.at <= Len(steps)

\* ------------------------------------------------------------- handlers
\* Each handler is given the three files of the hook it is called on and
\* the fault of this run; StepsOf... is the list of mutating system calls
\* the run makes when nothing goes wrong.

\* disableHook: rename <name>.py -> <name>.py.original, write the stub,
\* chmod 755
\* (variants used to test the properties below: the pre-3.0 disable that
\* leaves nothing at <name>.py, and a disable that forgets the chmod)
disableStepsRenameOnly == << Step("rename", "hookPath", "originalPath") >>

disableStepsNoChmod ==
    << Step("rename", "hookPath", "originalPath"),
       Step("writeStub", "hookPath", "hookPath") >>

\* (variant: the stub is written over <name>.py before the file is moved)
disableStepsStubFirst ==
    << Step("writeStub", "hookPath", "hookPath"),
       Step("rename", "hookPath", "originalPath"),
       Step("chmod", "hookPath", "hookPath") >>

disableSteps ==
    << Step("rename", "hookPath", "originalPath"),
       Step("writeStub", "hookPath", "hookPath"),
       Step("chmod", "hookPath", "hookPath") >>

StepsOfDisable(d) ==
    IF exists(d.originalPath) \/ ~exists(d.hookPath) THEN << >> ELSE disableSteps

\* (variants: a disable that does not look for <name>.py.original first,
\* and one that takes a missing <name>.py for a disabled hook)
disableHookNoBackupCheck(d, h, fault) ==
    IF ~exists(d.hookPath) THEN Outcome(d, "not_found", ExitOk)
    ELSE TryBlock(d, disableSteps, fault, h, "disabled")

disableHookMissingIsDisabled(d, h, fault) ==
    IF exists(d.originalPath) \/ ~exists(d.hookPath)
    THEN Outcome(d, "already_disabled", ExitOk)
    ELSE TryBlock(d, disableSteps, fault, h, "disabled")

disableHook(d, h, fault) ==
    IF exists(d.originalPath) THEN Outcome(d, "already_disabled", ExitOk)
    ELSE IF ~exists(d.hookPath) THEN Outcome(d, "not_found", ExitOk)
    ELSE TryBlock(d, disableSteps, fault, h, "disabled")

\* enableHook, the .original branch: unlink the stub if <name>.py is one,
\* then rename <name>.py.original -> <name>.py
\* (variant: the stub is deleted but the original is never renamed back)
restoreStepsUnlinkOnly(d) ==
    IF IsStub(d.hookPath) THEN << Step("unlink", "hookPath", "hookPath") >> ELSE << >>

restoreSteps(d) ==
    IF IsStub(d.hookPath)
    THEN << Step("unlink", "hookPath", "hookPath"),
            Step("rename", "originalPath", "hookPath") >>
    ELSE << Step("rename", "originalPath", "hookPath") >>

\* enableHook, the .disabled branch
legacySteps == << Step("rename", "disabledPath", "hookPath") >>

StepsOfEnable(d) ==
    IF exists(d.originalPath)
    THEN (IF exists(d.hookPath) THEN restoreSteps(d) ELSE << >>)
    ELSE IF exists(d.disabledPath) THEN legacySteps
    ELSE << >>

\* (variant: an enable that knows the .py.original convention only)
enableHookNoLegacy(d, h, fault) ==
    IF exists(d.originalPath)
    THEN IF ~exists(d.hookPath)
         THEN Outcome(d, "failed", ExitOk)
         ELSE TryBlock(d, restoreSteps(d), fault, h, "enabled")
    ELSE IF exists(d.hookPath)
    THEN (IF IsStub(d.hookPath)
          THEN Outcome(d, "stub_present", ExitOk)
          ELSE Outcome(d, "already_enabled", ExitOk))
    ELSE Outcome(d, "not_found", ExitOk)

enableHook(d, h, fault) ==
    IF exists(d.originalPath)
    THEN IF ~exists(d.hookPath)
         THEN \* readFileSync(hookPath) throws ENOENT inside the try block
              Outcome(d, "failed", ExitOk)
         ELSE TryBlock(d, restoreSteps(d), fault, h, "enabled")
    ELSE IF exists(d.disabledPath)
    THEN TryBlock(d, legacySteps, fault, h, "enabled")
    ELSE IF exists(d.hookPath)
    THEN (IF IsStub(d.hookPath)
          THEN Outcome(d, "stub_present", ExitOk)
          ELSE Outcome(d, "already_enabled", ExitOk))
    ELSE Outcome(d, "not_found", ExitOk)

\* createHook: write the template to <name>.py, chmod 755
createSteps ==
    << Step("writeTemplate", "hookPath", "hookPath"),
       Step("chmod", "hookPath", "hookPath") >>

createHook(d, h, fault) == TryBlock(d, createSteps, fault, h, "created")

\* removeHook: after confirmation unlink each of the three files that exists
unlinkIfExists(d, p) == IF exists(d[p]) THEN << Step("unlink", p, p) >> ELSE << >>

\* (variant: the 2.x remove, which does not know <name>.py.original)
removeStepsNoOriginal(d) ==
    unlinkIfExists(d, "hookPath") \o unlinkIfExists(d, "disabledPath")

removeSteps(d) ==
    unlinkIfExists(d, "hookPath") \o unlinkIfExists(d, "disabledPath")
        \o unlinkIfExists(d, "originalPath")

StepsOfRemove(d, confirm) == IF confirm THEN removeSteps(d) ELSE << >>

\* (variant: a remove that does not wait for the answer to its prompt)
removeHookNoConfirm(d, h, confirm, fault) ==
    IF ~exists(d.hookPath) /\ ~exists(d.disabledPath) /\ ~exists(d.originalPath)
    THEN Outcome(d, "not_found", ExitOk)
    ELSE TryBlock(d, removeSteps(d), fault, h, "removed")

removeHook(d, h, confirm, fault) ==
    IF ~exists(d.hookPath) /\ ~exists(d.disabledPath) /\ ~exists(d.originalPath)
    THEN Outcome(d, "not_found", ExitOk)
    ELSE IF ~confirm THEN Outcome(d, "cancelled", ExitOk)
    ELSE TryBlock(d, removeSteps(d), fault, h, "removed")

\* install.sh: cp *.py ~/.claude/hooks/ ; chmod +x ~/.claude/hooks/*.py
installCopy(d, h) == [d EXCEPT !.hookPath = File("shipped", h, ModeExec)]

\* (variant: the two-file test of the hook selection menu)
listHooksTwoFiles(d) ==
    IF exists(d.hookPath) THEN "ACTIVE"
    ELSE IF exists(d.disabledPath) THEN "DISABLED"
    ELSE "ABSENT"

\* (variant: a list that does not know the legacy <name>.py.disabled)
listHooksNoLegacy(d) ==
    IF exists(d.originalPath) THEN "DISABLED"
    ELSE IF exists(d.hookPath)
    THEN (IF IsStub(d.hookPath) THEN "DISABLED" ELSE "ACTIVE")
    ELSE "ABSENT"

\* listHooks: the indicator printed for one hook
listHooks(d) ==
    IF exists(d.originalPath) THEN "DISABLED"
    ELSE IF exists(d.disabledPath) THEN "DISABLED"
    ELSE IF exists(d.hookPath)
    THEN (IF IsStub(d.hookPath) THEN "DISABLED" ELSE "ACTIVE")
    ELSE "ABSENT"

\* selectAndShowHookInfo: the indicator put before each hook of the
\* "Select a hook to learn more" list
hookInfoStatus(d) ==
    IF exists(d.hookPath) THEN "ACTIVE"
    ELSE IF exists(d.disabledPath) THEN "DISABLED"
    ELSE "ABSENT"

\* editHook: the path handed to $EDITOR, "stub_note" when the handler
\* returns on finding a stub, "not_found" when no file exists
editHook(d) ==
    IF exists(d.originalPath) THEN "originalPath"
    ELSE IF exists(d.disabledPath) THEN "disabledPath"
    ELSE IF exists(d.hookPath)
    THEN (IF IsStub(d.hookPath) THEN "stub_note" ELSE "hookPath")
    ELSE "not_found"

\* the stub script written by disableHook, run with `stdin` on its standard
\* input: json.load inside try / bare except, the notice on stderr, exit 0
StdinKinds == {"valid", "malformed", "empty"}

\* json.load(sys.stdin)
jsonLoad(stdin) == IF stdin = "valid" THEN "ok" ELSE "JSONDecodeError"

\* the line the stub prints: Hook '<name>' is currently disabled
StubNotice(f) == [name |-> f.tag, word |-> "disabled"]

\* (variant: a stub that parses its input outside any try block)
runStubNoExcept(d, stdin) ==
    IF jsonLoad(stdin) = "ok"
    THEN Outcome(d, "disabled_notice", ExitOk)
    ELSE Outcome(d, "traceback", ExitError)

runStub(d, stdin) ==
    LET raised == jsonLoad(stdin) # "ok"
        caught == TRUE      \* except: pass
    IN IF raised /\ ~caught
       THEN Outcome(d, "traceback", ExitError)
       ELSE Outcome(d, "disabled_notice", ExitOk)

\* showStatus: the two counts printed, taken from the names in the
\* directory: *.py not ending in .disabled, and *.py.disabled
showStatus(dirs) ==
    [enabled |-> Cardinality({h \in DOMAIN dirs : exists(dirs[h].hookPath)}),
     disabled |-> Cardinality({h \in DOMAIN dirs : exists(dirs[h].disabledPath)})]

\* src/index.js, the 2.x command line: disableHook renames <name>.py to
\* <name>.py.disabled, enableHook renames it back
indexDisableHook(d) ==
    IF ~exists(d.hookPath)
    THEN (IF exists(d.disabledPath)
          THEN Outcome(d, "already_disabled", ExitOk)
          ELSE Outcome(d, "not_found", ExitOk))
    ELSE Outcome(renameSync(d, "hookPath", "disabledPath"), "disabled", ExitOk)

indexEnableHook(d) ==
    IF exists(d.hookPath) THEN Outcome(d, "already_enabled", ExitOk)
    ELSE IF exists(d.disabledPath)
    THEN Outcome(renameSync(d, "disabledPath", "hookPath"), "enabled", ExitOk)
    ELSE Outcome(d, "not_found", ExitOk)

\* migrate-disabled-hooks.js, the body of its loop for one <name>.py.disabled:
\* rename to <name>.py.original, write the stub to <name>.py, chmod 755
\* (variant: a migration that writes the stub and leaves <name>.py.disabled)
migrateStepsNoRename ==
    << Step("writeStub", "hookPath", "hookPath"),
       Step("chmod", "hookPath", "hookPath") >>

migrateSteps ==
    << Step("rename", "disabledPath", "originalPath"),
       Step("writeStub", "hookPath", "hookPath"),
       Step("chmod", "hookPath", "hookPath") >>

StepsOfMigrate(d) == IF exists(d.disabledPath) THEN migrateSteps ELSE << >>

migrateHook(d, h, fault) ==
    IF exists(d.disabledPath)
    THEN TryBlock(d, migrateSteps, fault, h, "migrated")
    ELSE Outcome(d, "skipped", ExitOk)

\* ------------------------------------------------- handlers, step by step
\* disableHook and enableHook one system call at a time, for runs of the
\* tool that overlap: pc names the call the run makes next, every call sees
\* the directory as the other run left it, and a call on a missing file
\* throws ENOENT.
Goto(d, pc) == [dir |-> d, pc |-> pc, msg |-> "none", code |-> ExitOk]
Done(d, msg, code) == [dir |-> d, pc |-> "done", msg |-> msg, code |-> code]

disableHookStep(d, h, pc) ==
    CASE pc = "existsOriginal" ->
            IF exists(d.originalPath) THEN Done(d, "already_disabled", ExitOk)
            ELSE Goto(d, "existsHook")
      [] pc = "existsHook" ->
            IF ~exists(d.hookPath) THEN Done(d, "not_found", ExitOk)
            ELSE Goto(d, "rename")
      [] pc = "rename" ->
            IF exists(d.hookPath)
            THEN Goto(renameSync(d, "hookPath", "originalPath"), "writeStub")
            ELSE Done(d, "failed", ExitOk)
      [] pc = "writeStub" ->
            Goto(writeFileSync(d, "hookPath", "stub", h), "chmod")
      [] pc = "chmod" ->
            IF exists(d.hookPath)
            THEN Done(chmodSync(d, "hookPath", ModeExec), "disabled", ExitOk)
            ELSE Done(d, "failed", ExitOk)

enableHookStep(d, pc) ==
    CASE pc = "existsOriginal" ->
            IF exists(d.originalPath) THEN Goto(d, "readStub")
            ELSE Goto(d, "existsDisabled")
      [] pc = "readStub" ->
            IF ~exists(d.hookPath) THEN Done(d, "failed", ExitOk)
            ELSE IF IsStub(d.hookPath) THEN Goto(d, "unlink")
            ELSE Goto(d, "renameOriginal")
      [] pc = "unlink" ->
            IF exists(d.hookPath)
            THEN Goto(unlinkSync(d, "hookPath"), "renameOriginal")
            ELSE Done(d, "failed", ExitOk)
      [] pc = "renameOriginal" ->
            IF exists(d.originalPath)
            THEN Done(renameSync(d, "originalPath", "hookPath"), "enabled", ExitOk)
            ELSE Done(d, "failed", ExitOk)
      [] pc = "existsDisabled" ->
            IF exists(d.disabledPath) THEN Goto(d, "renameDisabled")
            ELSE Goto(d, "existsHook")
      [] pc = "renameDisabled" ->
            IF exists(d.disabledPath)
            THEN Done(renameSync(d, "disabledPath", "hookPath"), "enabled", ExitOk)
            ELSE Done(d, "failed", ExitOk)
      [] pc = "existsHook" ->
            IF exists(d.hookPath) THEN Goto(d, "readHook")
            ELSE Done(d, "not_found", ExitOk)
      [] pc = "readHook" ->
            \* outside any try block: ENOENT ends the process with status 1
            IF ~exists(d.hookPath) THEN Done(d, "error", ExitError)
            ELSE IF IsStub(d.hookPath) THEN Done(d, "stub_present", ExitOk)
            ELSE Done(d, "already_enabled", ExitOk)

\* the two processes that may run the tool at the same time
Procs == {1, 2}
Idle == [cmd |-> "none", hook |-> 0, pc |-> "idle", pre |-> EmptyDir]

\* ------------------------------------------------------------- state
VARIABLES
    fs,         \* fs[h][p]: the file at path p of hook h
    last,       \* the last run of the tool: command, hook, message, exit status
    installed,  \* installed[h]: h was installed or created and not removed since
    faulted,    \* faulted[h]: a run on h was hit by a fault since h was last absent
    running,    \* running[p]: the run of the tool that process p is in the middle of
    settings    \* the text of ~/.claude/settings.json, the host's configuration

vars == << fs, last, installed, faulted, running, settings >>

\* `arg` is what the run was given besides the hook name: the answer to
\* removeHook's confirmation prompt, or the standard input of a hook script
Run(cmd, h, out, fault, pre) ==
    [cmd |-> cmd, hook |-> h, msg |-> out.msg, code |-> out.code,
     fault |-> fault, pre |-> pre, arg |-> "none"]

RunWith(cmd, h, out, fault, pre, arg) == [Run(cmd, h, out, fault, pre) EXCEPT !.arg = arg]

\* a hook as the 2.x versions of the tool leave it: not installed, installed
\* at <name>.py, or moved to <name>.py.disabled by the old disable
InstalledFiles(h) ==
    {File("shipped", h, ModeExec)} \cup {File("user", c, ModeExec) : c \in UserContents}

UpgradedDirs(h) ==
    {EmptyDir}
    \cup {[EmptyDir EXCEPT !.hookPath = f] : f \in InstalledFiles(h)}
    \cup {[EmptyDir EXCEPT !.disabledPath = f] : f \in InstalledFiles(h)}

Init ==
    /\ fs \in [Hooks -> UNION {UpgradedDirs(h) : h \in Hooks}]
    /\ \A h \in Hooks : fs[h] \in UpgradedDirs(h)
    /\ last = [cmd |-> "none", hook |-> 0, msg |-> "none", code |-> ExitOk,
               fault |-> NoFault, pre |-> EmptyDir, arg |-> "none"]
    /\ installed = [h \in Hooks |-> exists(fs[h].hookPath)]
    /\ faulted = [h \in Hooks |-> FALSE]
    /\ running = [p \in Procs |-> Idle]
    /\ settings = "absent"

\* bookkeeping shared by the commands on one hook
\* (variant: the files the handler leaves are written under every name)
RecordEveryHook(h, cmd, out, fault) ==
    /\ fs' = [g \in DOMAIN fs |-> out.dir]
    /\ last' = Run(cmd, h, out, fault, fs[h])
    /\ faulted' = [faulted EXCEPT ![h] = @ \/ fault.kind # "none"]
    /\ UNCHANGED << running, settings >>

Record(h, cmd, out, fault) ==
    /\ fs' = [fs EXCEPT ![h] = out.dir]
    /\ last' = Run(cmd, h, out, fault, fs[h])
    /\ faulted' = [faulted EXCEPT ![h] = @ \/ fault.kind # "none"]
    /\ UNCHANGED << running, settings >>

\* The commands on one hook, under the faults of F.
\* claude-hooks disable <name>
DisableIn(h, F) ==
    \E fault \in F :
        /\ FaultFits(fault, StepsOfDisable(fs[h]))
        /\ Record(h, "disable", disableHook(fs[h], h, fault), fault)
        /\ UNCHANGED installed

Disable(h) == DisableIn(h, Faults)

\* claude-hooks enable <name>
EnableIn(h, F) ==
    \E fault \in F :
        /\ FaultFits(fault, StepsOfEnable(fs[h]))
        /\ Record(h, "enable", enableHook(fs[h], h, fault), fault)
        /\ UNCHANGED installed

Enable(h) == EnableIn(h, Faults)

\* claude-hooks create <name>
CreateIn(h, F) ==
    \E fault \in F :
        /\ FaultFits(fault, createSteps)
        /\ Record(h, "create", createHook(fs[h], h, fault), fault)
        /\ installed' = [installed EXCEPT ![h] = @ \/ fault.kind = "none"]

Create(h) == CreateIn(h, Faults)

\* claude-hooks remove <name>
RemoveIn(h, F) ==
    \E confirm \in BOOLEAN, fault \in F :
        /\ FaultFits(fault, StepsOfRemove(fs[h], confirm))
        /\ LET out == removeHook(fs[h], h, confirm, fault) IN
            /\ fs' = [fs EXCEPT ![h] = out.dir]
            /\ last' = RunWith("remove", h, out, fault, fs[h],
                              IF out.msg = "not_found" THEN "none"
                              ELSE IF confirm THEN "yes" ELSE "no")
            /\ installed' = [installed EXCEPT ![h] = @ /\ out.msg # "removed"]
            /\ faulted' = [faulted EXCEPT ![h] =
                             (@ \/ fault.kind # "none") /\ out.msg # "removed"]
            /\ UNCHANGED << running, settings >>

Remove(h) == RemoveIn(h, Faults)

\* claude-hooks install: execSync('./install.sh'); the script is found in
\* the working directory or the call throws and the process exits 1
installHooks(found) ==
    /\ fs' = IF found THEN [h \in DOMAIN fs |-> installCopy(fs[h], h)] ELSE fs
    /\ last' = [cmd |-> "install", hook |-> 0,
                msg |-> IF found THEN "installed" ELSE "failed",
                code |-> IF found THEN ExitOk ELSE ExitError,
                fault |-> NoFault, pre |-> EmptyDir, arg |-> "none"]
    /\ installed' = IF found THEN [h \in DOMAIN fs |-> TRUE] ELSE installed
    /\ UNCHANGED << faulted, settings >>

Install ==
    \E found \in BOOLEAN :
        /\ installHooks(found)
        /\ UNCHANGED running

\* claude-hooks list: the line printed for hook h
List(h) ==
    /\ last' = Run("list", h, Outcome(fs[h], listHooks(fs[h]), ExitOk), NoFault, fs[h])
    /\ UNCHANGED << fs, installed, faulted, running, settings >>

\* the host runs <name>.py while it is a stub, with some standard input
RunStub(h) ==
    \E stdin \in StdinKinds :
        /\ IsStub(fs[h].hookPath)
        /\ last' = RunWith("run", h, runStub(fs[h], stdin), NoFault, fs[h], stdin)
        /\ UNCHANGED << fs, installed, faulted, running, settings >>

\* claude-hooks edit <name>: the editor is run on the path editHook picks
\* and the user saves a text of their own or leaves the file as it is
KeepText == 0

Edit(h) ==
    \E text \in {KeepText} \cup UserContents :
        LET opened == editHook(fs[h])
            saved == IF opened \in Paths /\ text # KeepText
                     THEN [fs[h] EXCEPT ![opened] = File("user", text, @.mode)]
                     ELSE fs[h]
        IN /\ Record(h, "edit", Outcome(saved, opened, ExitOk), NoFault)
           /\ UNCHANGED installed

\* interactive menu, "Get info about a specific hook": the indicator shown
\* for hook h in the selection list
SelectInfo(h) ==
    /\ last' = Run("info", h, Outcome(fs[h], hookInfoStatus(fs[h]), ExitOk), NoFault, fs[h])
    /\ UNCHANGED << fs, installed, faulted, running, settings >>

Next ==
    \/ \E h \in Hooks : Disable(h)
    \/ \E h \in Hooks : Enable(h)
    \/ \E h \in Hooks : Create(h)
    \/ \E h \in Hooks : Remove(h)
    \/ \E h \in Hooks : List(h)
    \/ \E h \in Hooks : RunStub(h)
    \/ \E h \in Hooks : Edit(h)
    \/ \E h \in Hooks : SelectInfo(h)
    \/ Install

Spec == Init /\ [][Next]_vars

\* ------------------------------------------------ a fresh hooks directory
\* Two hooks, an empty directory, and runs of create, disable, enable and
\* remove that meet no fault.
TwoHooks == {1, 2}

NoRun ==
    [cmd |-> "none", hook |-> 0, msg |-> "none", code |-> ExitOk,
     fault |-> NoFault, pre |-> EmptyDir, arg |-> "none"]

InitClean ==
    /\ fs = [h \in TwoHooks |-> EmptyDir]
    /\ last = NoRun
    /\ installed = [h \in TwoHooks |-> FALSE]
    /\ faulted = [h \in TwoHooks |-> FALSE]
    /\ running = [p \in Procs |-> Idle]
    /\ settings = "absent"

CreateOk(h) == CreateIn(h, {NoFault})
DisableOk(h) == DisableIn(h, {NoFault})
EnableOk(h) == EnableIn(h, {NoFault})
RemoveOk(h) == RemoveIn(h, {NoFault})

NextClean ==
    \/ \E h \in TwoHooks : CreateOk(h)
    \/ \E h \in TwoHooks : DisableOk(h)
    \/ \E h \in TwoHooks : EnableOk(h)
    \/ \E h \in TwoHooks : RemoveOk(h)

SpecClean == InitClean /\ [][NextClean]_vars

\* ------------------------------------------ a directory upgraded from 2.x
\* Two hooks, a directory that starts empty, the commands of both command
\* lines (src/index.js and the 3.x one) and the migration script, all
\* meeting no fault unless F says otherwise.

\* node migrate-disabled-hooks.js: every <name>.py.disabled of the
\* directory, in directory order; a throw is caught per hook and the loop
\* goes on, a kill ends the script
MigrateIn(F) ==
    \E ff \in [DOMAIN fs -> F] :
        LET todo == {h \in DOMAIN fs : exists(fs[h].disabledPath)}
            reached(h) == h \in todo /\ \A g \in todo : g < h => ff[g].kind # "kill"
            out(h) == migrateHook(fs[h], h, ff[h])
            killed == \E h \in todo : reached(h) /\ ff[h].kind = "kill"
            threw == \E h \in todo : reached(h) /\ ff[h].kind = "throw"
        IN /\ \A h \in DOMAIN fs : FaultFits(ff[h], StepsOfMigrate(fs[h]))
           /\ fs' = [h \in DOMAIN fs |-> IF reached(h) THEN out(h).dir ELSE fs[h]]
           /\ last' = [NoRun EXCEPT
                         !.cmd = "migrate",
                         !.msg = IF todo = {} THEN "nothing"
                                 ELSE IF killed THEN "none"
                                 ELSE IF threw THEN "failed" ELSE "migrated",
                         !.code = IF killed THEN ExitKilled ELSE ExitOk]
           /\ faulted' = [h \in DOMAIN fs |->
                            faulted[h] \/ (reached(h) /\ ff[h].kind # "none")]
           /\ UNCHANGED << installed, running, settings >>

Migrate == MigrateIn({NoFault})

\* src/index.js: claude-hooks disable <name> / enable <name>
IndexDisable(h) ==
    /\ Record(h, "index_disable", indexDisableHook(fs[h]), NoFault)
    /\ UNCHANGED installed

IndexEnable(h) ==
    /\ Record(h, "index_enable", indexEnableHook(fs[h]), NoFault)
    /\ UNCHANGED installed

\* claude-hooks config: settings.json is copied from settings.example.json
\* when it is missing (the copy may throw), then opened in the editor, where
\* the user saves a text of their own or leaves the file as it is
configureSettings(text, copied, saved) ==
    IF text = "absent" /\ ~copied THEN [text |-> "absent", msg |-> "failed"]
    ELSE [text |-> IF saved THEN "user" ELSE IF text = "absent" THEN "example" ELSE text,
          msg |-> "opened"]

Config ==
    \E copied \in BOOLEAN, saved \in BOOLEAN :
        LET out == configureSettings(settings, copied, saved)
        IN /\ settings' = out.text
           /\ last' = [NoRun EXCEPT !.cmd = "config", !.msg = out.msg]
           /\ UNCHANGED << fs, installed, faulted, running >>

NextDir ==
    \/ \E h \in TwoHooks : DisableOk(h)
    \/ \E h \in TwoHooks : EnableOk(h)
    \/ \E h \in TwoHooks : RemoveOk(h)
    \/ \E h \in TwoHooks : IndexDisable(h)
    \/ \E h \in TwoHooks : IndexEnable(h)
    \/ Install
    \/ Migrate
    \/ Config

SpecDir == InitClean /\ [][NextDir]_vars

\* --------------------------------------------------- the interactive menu
\* `claude-hooks` without a command: showInteractiveMenu prompts for an
\* action, awaits its handler and calls itself again.  The session is the
\* run of process 1; a handler that throws is caught inside the handler,
\* so the faults of a menu action are the throws.
MenuSession == [cmd |-> "menu", hook |-> 0, pc |-> "prompt", pre |-> EmptyDir]
MenuFaults == {f \in Faults : f.kind # "kill"}

AtPrompt == running[1] = MenuSession

\* the session ends: process.exit
EndSession == running' = [running EXCEPT ![1].pc = "done"]

\* the hooks offered by "Enable a hook", "Disable a hook", "Edit existing
\* hook" and "Remove a hook"
menuChoices(action, dirs) ==
    CASE action = "enable" ->
            {h \in DOMAIN dirs : exists(dirs[h].disabledPath) \/ exists(dirs[h].originalPath)}
      [] action = "disable" ->
            {h \in DOMAIN dirs : /\ exists(dirs[h].hookPath)
                                 /\ ~exists(dirs[h].originalPath)
                                 /\ ~IsStub(dirs[h].hookPath)}
      [] action = "edit" -> {h \in DOMAIN dirs : exists(dirs[h].hookPath)}
      [] action = "remove" -> {h \in DOMAIN dirs : dirs[h] # EmptyDir}

StartMenu ==
    /\ running[1].pc \in {"idle", "done"}
    /\ running' = [running EXCEPT ![1] = MenuSession]
    /\ UNCHANGED << fs, last, installed, faulted, settings >>

MenuInstall ==
    \E found \in BOOLEAN :
        /\ AtPrompt
        /\ installHooks(found)
        /\ IF found THEN UNCHANGED running ELSE EndSession

MenuList == AtPrompt /\ \E h \in Hooks : List(h)

MenuInfo == AtPrompt /\ \E h \in Hooks : SelectInfo(h)

MenuEnable == AtPrompt /\ \E h \in menuChoices("enable", fs) : EnableIn(h, MenuFaults)

MenuDisable == AtPrompt /\ \E h \in menuChoices("disable", fs) : DisableIn(h, MenuFaults)

MenuCreate == AtPrompt /\ \E h \in Hooks : CreateIn(h, MenuFaults)

MenuEdit == AtPrompt /\ \E h \in menuChoices("edit", fs) : Edit(h)

MenuRemove == AtPrompt /\ \E h \in menuChoices("remove", fs) : RemoveIn(h, MenuFaults)

MenuConfig == AtPrompt /\ Config

\* "No disabled hooks found." and the like: nothing to choose from
MenuNoneFound ==
    \E action \in {"enable", "disable", "edit", "remove"} :
        /\ AtPrompt
        /\ menuChoices(action, fs) = {}
        /\ last' = [NoRun EXCEPT !.cmd = action, !.msg = "none_found"]
        /\ UNCHANGED << fs, installed, faulted, running, settings >>

MenuExit ==
    /\ AtPrompt
    /\ EndSession
    /\ last' = [NoRun EXCEPT !.cmd = "exit", !.code = ExitOk]
    /\ UNCHANGED << fs, installed, faulted, settings >>

NextMenu ==
    \/ StartMenu
    \/ MenuInstall
    \/ MenuList
    \/ MenuInfo
    \/ MenuEnable
    \/ MenuDisable
    \/ MenuCreate
    \/ MenuEdit
    \/ MenuRemove
    \/ MenuConfig
    \/ MenuNoneFound
    \/ MenuExit

SpecMenu == Init /\ [][NextMenu]_vars

\* ------------------------------------------------ two runs at the same time
\* Two shells start `claude-hooks disable <name>` or `claude-hooks enable
\* <name>` on the same hook; the system calls of the two runs interleave in
\* any order.  `pre` is the hook's files when the two runs started.
StartPair(h) ==
    \E c \in [Procs -> {"disable", "enable"}] :
        /\ \A p \in Procs : running[p].pc \in {"idle", "done"}
        /\ running' = [p \in Procs |->
                         [cmd |-> c[p], hook |-> h, pc |-> "existsOriginal", pre |-> fs[h]]]
        /\ UNCHANGED << fs, last, installed, faulted, settings >>

StepProc(p) ==
    /\ running[p].pc \notin {"idle", "done"}
    /\ LET r == running[p]
           h == r.hook
           st == IF r.cmd = "disable" THEN disableHookStep(fs[h], h, r.pc)
                 ELSE enableHookStep(fs[h], r.pc)
       IN /\ fs' = [fs EXCEPT ![h] = st.dir]
          /\ running' = [running EXCEPT ![p].pc = st.pc]
          /\ last' = IF st.pc = "done"
                     THEN Run(r.cmd, h, Outcome(st.dir, st.msg, st.code), NoFault, r.pre)
                     ELSE last
          /\ UNCHANGED << installed, faulted, settings >>

NextConc ==
    \/ \E h \in Hooks : StartPair(h)
    \/ \E p \in Procs : StepProc(p)

SpecConc == Init /\ [][NextConc]_vars

\* ------------------------------------------------------------- properties
\* the states of section 3 of the specification, as conditions on the
\* three files of a hook
IsActive(d) == exists(d.hookPath) /\ ~IsStub(d.hookPath) /\ ~exists(d.originalPath)
StubAndBackup(d) == IsStub(d.hookPath) /\ exists(d.originalPath)
BackupOnly(d) == ~exists(d.hookPath) /\ exists(d.originalPath)
NoStubAnywhere(d) == \A p \in Paths : ~IsStub(d[p])
OnlyLegacy(d) ==
    exists(d.disabledPath) /\ ~exists(d.hookPath) /\ ~exists(d.originalPath)

\* the process is killed after disable's rename, before the stub is written
KilledBeforeStubWrite == [kind |-> "kill", at |-> 2]

\* the messages that report a completed transition
SuccessMsgs == {"enabled", "disabled", "removed"}

\* the last run was command `cmd` on hook h
Ran(cmd, h) == last.cmd = cmd /\ last.hook = h

\* C1: once a hook has been installed or created, and as long as no run on
\* it was hit by a filesystem failure or a kill and it was not removed, a
\* file exists at <name>.py after every disable and every enable, and the
\* hook is never left with <name>.py.original present and <name>.py missing.
C1_ActivePathAlwaysPresent ==
    \A h \in Hooks :
        (installed[h] /\ ~faulted[h] /\ (Ran("disable", h) \/ Ran("enable", h)))
            => /\ exists(fs[h].hookPath)
               /\ ~BackupOnly(fs[h])

C1_Witness ==
    \E h \in Hooks :
        /\ installed[h] /\ ~faulted[h]
        /\ Ran("disable", h) /\ last.msg = "disabled"
        /\ IsActive(last.pre)
        /\ StubAndBackup(fs[h])

\* C2: round trip.  A disable of a hook whose <name>.py holds non-stub
\* content C with no <name>.py.original, followed by an enable of the same
\* hook, leaves <name>.py exactly C, no <name>.py.original and no stub.
C2_RoundTrip ==
    [][ \A h \in Hooks :
          ( /\ Ran("disable", h) /\ last.msg = "disabled" /\ IsActive(last.pre)
            /\ last'.cmd = "enable" /\ last'.hook = h
            /\ last'.fault = NoFault )
          => /\ last'.msg = "enabled"
             /\ fs'[h].hookPath = last.pre.hookPath
             /\ ~exists(fs'[h].originalPath)
             /\ NoStubAnywhere(fs'[h]) ]_vars

C2_Witness ==
    \E h \in Hooks :
        /\ Ran("enable", h) /\ last.msg = "enabled"
        /\ StubAndBackup(last.pre)
        /\ ~IsStub(last.pre.originalPath)
        /\ fs[h].hookPath = last.pre.originalPath
        /\ ~exists(fs[h].originalPath)

\* C3: a disable that runs to its end on a hook whose <name>.py holds
\* non-stub content X with no <name>.py.original leaves X at
\* <name>.py.original and, at <name>.py, a stub that names the hook, says
\* "disabled" and has mode 755; list shows the hook as disabled.
C3_DisablePostcondition ==
    \A h \in Hooks :
        (Ran("disable", h) /\ last.fault = NoFault /\ IsActive(last.pre))
            => /\ last.msg = "disabled"
               /\ fs[h].originalPath = last.pre.hookPath
               /\ StubNames(fs[h].hookPath, h)
               /\ StubSaysDisabled(fs[h].hookPath)
               /\ fs[h].hookPath.mode = ModeExec
               /\ listHooks(fs[h]) = "DISABLED"

C3_Witness ==
    \E h \in Hooks :
        /\ Ran("disable", h) /\ last.fault = NoFault /\ IsActive(last.pre)
        /\ last.pre.hookPath.kind = "user"
        /\ fs[h].originalPath = last.pre.hookPath
        /\ fs[h].hookPath = File("stub", h, ModeExec)

\* C4: whenever <name>.py.original exists, with <name>.py a stub or with
\* <name>.py missing (an interrupted disable), an enable that meets no fault
\* ends with <name>.py holding what was at <name>.py.original, no
\* <name>.py.original, and the hook active.
C4_EnablePostcondition ==
    \A h \in Hooks :
        ( /\ Ran("enable", h) /\ last.fault = NoFault
          /\ exists(last.pre.originalPath)
          /\ (IsStub(last.pre.hookPath) \/ ~exists(last.pre.hookPath)) )
            => /\ fs[h].hookPath = last.pre.originalPath
               /\ ~exists(fs[h].originalPath)
               /\ IsActive(fs[h])

\* C5: a disable killed after its rename and before the stub is written
\* leaves the pre-disable <name>.py at <name>.py.original, and list shows
\* the hook as disabled, not as not installed.
C5_NoLossOnInterruption ==
    \A h \in Hooks :
        ( /\ Ran("disable", h) /\ last.fault = KilledBeforeStubWrite
          /\ exists(last.pre.hookPath) /\ ~exists(last.pre.originalPath) )
            => /\ exists(fs[h].originalPath)
               /\ fs[h].originalPath = last.pre.hookPath
               /\ listHooks(fs[h]) = "DISABLED"

C5_Witness ==
    \E h \in Hooks :
        /\ Ran("disable", h) /\ last.fault = KilledBeforeStubWrite
        /\ IsActive(last.pre)
        /\ ~exists(last.pre.disabledPath)
        /\ BackupOnly(fs[h])
        /\ last.code = ExitKilled

\* C6: of two disables in a row on an active hook only the first changes
\* files; the second reports "already disabled", leaves every file as the
\* first left it, and <name>.py.original still holds the original.
C6_DisableIdempotent ==
    [][ \A h \in Hooks :
          ( /\ Ran("disable", h) /\ last.msg = "disabled" /\ IsActive(last.pre)
            /\ last'.cmd = "disable" /\ last'.hook = h /\ last' # last )
          => /\ last'.msg = "already_disabled"
             /\ fs' = fs
             /\ fs'[h].originalPath = last.pre.hookPath
             /\ ~IsStub(fs'[h].originalPath) ]_vars

C6_Witness ==
    \E h \in Hooks :
        /\ Ran("disable", h) /\ last.msg = "already_disabled"
        /\ StubAndBackup(last.pre)
        /\ fs[h] = last.pre
        /\ ~IsStub(fs[h].originalPath)

\* C7: whenever the hook is disabled - <name>.py.original exists, or
\* <name>.py is a stub without <name>.py.original, or only the legacy
\* <name>.py.disabled exists - disable reports "already disabled" and
\* changes no file.
C7_DisableOnDisabled ==
    \A h \in Hooks :
        ( /\ Ran("disable", h)
          /\ \/ exists(last.pre.originalPath)
             \/ (IsStub(last.pre.hookPath) /\ ~exists(last.pre.originalPath))
             \/ OnlyLegacy(last.pre) )
            => /\ last.msg = "already_disabled"
               /\ fs[h] = last.pre

\* C8: enable on an active hook (<name>.py non-stub, no <name>.py.original)
\* reports "already enabled" and changes no file, whether or not a legacy
\* <name>.py.disabled is present.
C8_EnableOnActive ==
    \A h \in Hooks :
        (Ran("enable", h) /\ IsActive(last.pre))
            => /\ last.msg = "already_enabled"
               /\ fs[h] = last.pre

\* C9: disable or enable of a hook none of whose three files exists
\* reports "not found" and creates, renames or deletes no file.
C9_NotFound ==
    \A h \in Hooks :
        ((Ran("disable", h) \/ Ran("enable", h)) /\ last.pre = EmptyDir)
            => /\ last.msg = "not_found"
               /\ fs[h] = EmptyDir

C9_Witness ==
    \E h \in Hooks :
        /\ Ran("disable", h) /\ last.pre = EmptyDir
        /\ last.msg = "not_found"
        /\ fs[h] = EmptyDir

\* C10: an enable, disable or remove that ends in "not found" or in a
\* filesystem error exits with a non-zero status; a run that did not
\* complete its transition never exits 0 and never prints success.
C10_ErrorsExitNonZero ==
    /\ (last.cmd \in {"enable", "disable", "remove"} /\ last.msg \in {"not_found", "failed"})
          => last.code # ExitOk
    /\ (last.cmd \in {"enable", "disable", "remove"} /\ last.fault # NoFault)
          => (last.code # ExitOk /\ last.msg \notin SuccessMsgs)

\* C11: enable of a hook disabled the legacy way (<name>.py.disabled holds
\* C, <name>.py and <name>.py.original are missing) ends with <name>.py
\* holding exactly C, no <name>.py.disabled, and the hook active.
C11_LegacyEnable ==
    \A h \in Hooks :
        (Ran("enable", h) /\ last.fault = NoFault /\ OnlyLegacy(last.pre))
            => /\ last.msg = "enabled"
               /\ fs[h].hookPath = last.pre.disabledPath
               /\ ~exists(fs[h].disabledPath)
               /\ IsActive(fs[h])
               /\ listHooks(fs[h]) = "ACTIVE"

C11_Witness ==
    \E h \in Hooks :
        /\ Ran("enable", h) /\ OnlyLegacy(last.pre)
        /\ last.pre.disabledPath.kind = "user"
        /\ fs[h] = [EmptyDir EXCEPT !.hookPath = last.pre.disabledPath]

\* C12: list shows a hook whose <name>.py.disabled exists and whose
\* <name>.py is missing as disabled, without any migration.
C12_LegacyListedDisabled ==
    \A h \in Hooks :
        ( /\ Ran("list", h)
          /\ exists(last.pre.disabledPath) /\ ~exists(last.pre.hookPath) )
            => last.msg = "DISABLED"

C12_Witness ==
    \E h \in Hooks :
        /\ Ran("list", h) /\ OnlyLegacy(last.pre)
        /\ last.msg = "DISABLED"
        /\ fs[h] = last.pre

\* C13: a confirmed remove that meets no fault, from any state in which at
\* least one file of the hook exists, leaves none of the three files, and
\* list then shows the hook as not installed.
C13_RemoveReachesAbsent ==
    \A h \in Hooks :
        ( /\ Ran("remove", h) /\ last.arg = "yes" /\ last.fault = NoFault
          /\ last.pre # EmptyDir )
            => /\ last.msg = "removed"
               /\ fs[h] = EmptyDir
               /\ listHooks(fs[h]) = "ABSENT"

C13_Witness ==
    \E h \in Hooks :
        /\ Ran("remove", h) /\ last.arg = "yes" /\ last.msg = "removed"
        /\ StubAndBackup(last.pre)
        /\ fs[h] = EmptyDir

\* C14: the stub written by disable, run with valid, malformed or empty
\* standard input, exits 0 after printing a line with the hook's name and
\* the word "disabled", and never ends in an unhandled error.
C14_StubSafety ==
    \A h \in Hooks :
        Ran("run", h)
            => /\ last.code = ExitOk
               /\ last.msg = "disabled_notice"
               /\ StubNotice(last.pre.hookPath) = [name |-> h, word |-> "disabled"]

C14_Witness ==
    \E h \in Hooks :
        /\ Ran("run", h) /\ last.arg = "malformed"
        /\ StubNames(last.pre.hookPath, h)
        /\ last.code = ExitOk

\* the faults of disable: the stub write throws, the rename throws
StubWriteThrows == [kind |-> "throw", at |-> 2]
RenameThrows == [kind |-> "throw", at |-> 1]

\* the text printed for the last run's fault
PrintedError(steps) == errorMessage(steps[last.fault.at])

\* C18: when the stub write of disable throws after the rename succeeded,
\* disable reports an error, the original is intact at <name>.py.original
\* with nothing at <name>.py, and the error printed names that state (the
\* original now at <name>.py.original), unlike the error of a failed rename.
C18_PartialStateReported ==
    \A h \in Hooks :
        ( /\ Ran("disable", h) /\ last.fault = StubWriteThrows
          /\ exists(last.pre.hookPath) /\ ~exists(last.pre.originalPath) )
            => /\ last.msg = "failed"
               /\ fs[h].originalPath = last.pre.hookPath
               /\ ~exists(fs[h].hookPath)
               /\ "originalPath" \in PrintedError(disableSteps).paths
               /\ PrintedError(disableSteps) # errorMessage(disableSteps[RenameThrows.at])

\* C20: in every state reached from an empty hooks directory by create,
\* disable, enable and remove runs that meet no fault, <name>.py.original
\* exists if and only if <name>.py holds a stub.
C20_BackupIffStub ==
    \A h \in DOMAIN fs :
        exists(fs[h].originalPath) <=> IsStub(fs[h].hookPath)

\* the directory after running cmd alone, and after running c1 then c2
handlerOf(cmd, d, h) ==
    IF cmd = "disable" THEN disableHook(d, h, NoFault) ELSE enableHook(d, h, NoFault)

sequential(d, h, c1, c2) == handlerOf(c2, handlerOf(c1, d, h).dir, h).dir

\* the implementations (anything but a stub) among the three files
RealLogic(d) ==
    {[kind |-> d[p].kind, tag |-> d[p].tag] :
        p \in {q \in Paths : exists(d[q]) /\ ~IsStub(d[q])}}

BothDone == \A p \in Procs : running[p].pc = "done"

\* C15: status and list agree: the number of hooks status counts as enabled
\* (as disabled) is the number of hooks list shows ACTIVE (DISABLED).
C15_StatusAgreesWithList ==
    /\ showStatus(fs).enabled =
         Cardinality({h \in DOMAIN fs : listHooks(fs[h]) = "ACTIVE"})
    /\ showStatus(fs).disabled =
         Cardinality({h \in DOMAIN fs : listHooks(fs[h]) = "DISABLED"})

\* C16: a run of the migration script that meets no failure leaves, for every
\* hook that had <name>.py.disabled, no such file, its former content at
\* <name>.py.original and an executable stub at <name>.py; no .py.disabled
\* remains, and a run that follows migrates nothing and changes no file.
C16_MigrationPostcondition ==
    [][ (last'.cmd = "migrate" /\ last'.msg \in {"migrated", "nothing"}) =>
          /\ \A h \in DOMAIN fs :
                /\ ~exists(fs'[h].disabledPath)
                /\ exists(fs[h].disabledPath) =>
                      /\ fs'[h].originalPath = fs[h].disabledPath
                      /\ StubNames(fs'[h].hookPath, h)
                      /\ fs'[h].hookPath.mode = ModeExec
                /\ ~exists(fs[h].disabledPath) => fs'[h] = fs[h]
          /\ (last.cmd = "migrate" /\ last.msg = "migrated") =>
                /\ fs' = fs
                /\ last'.msg = "nothing" ]_vars

C16_Witness ==
    /\ last.cmd = "migrate" /\ last.msg = "migrated"
    /\ \A h \in DOMAIN fs :
          /\ fs[h].originalPath.kind = "shipped"
          /\ StubNames(fs[h].hookPath, h)
          /\ ~exists(fs[h].disabledPath)

\* C17: no run of the tool, in either command line, creates a
\* <name>.py.disabled file: the set of such files only shrinks.
C17_LegacyNeverWritten ==
    [][ \A h \in DOMAIN fs :
          ~exists(fs[h].disabledPath) => ~exists(fs'[h].disabledPath) ]_vars

\* C19: when two runs (each a disable or an enable of the same hook) have
\* interleaved and both ended, the hook's files are those that one of the
\* two sequential orders leaves, and an implementation that was on disk
\* when they started is still on disk.
C19_LastWriterWins ==
    BothDone =>
        LET h == running[1].hook
            pre == running[1].pre
            c1 == running[1].cmd
            c2 == running[2].cmd
        IN /\ fs[h] \in {sequential(pre, h, c1, c2), sequential(pre, h, c2, c1)}
           /\ RealLogic(pre) # {} => RealLogic(pre) \cap RealLogic(fs[h]) # {}

\* the text of two files is the same
SameContent(f, g) == f.kind = g.kind /\ f.tag = g.tag

\* the text of f is at exactly one of <name>.py and <name>.py.original
AtExactlyOne(d, f) == SameContent(d.hookPath, f) # SameContent(d.originalPath, f)

\* the process is killed after enable's unlink, before the rename back
KilledBeforeRestore == [kind |-> "kill", at |-> 2]

\* C21: wherever a disable of an active hook, or an enable of a hook
\* disabled by stub and backup, stops (after any of its system calls, by a
\* kill or a throw, or at its end), the original implementation is at
\* exactly one of <name>.py and <name>.py.original.
C21_ExactlyOneCopy ==
    \A h \in Hooks :
        /\ (Ran("disable", h) /\ IsActive(last.pre))
              => AtExactlyOne(fs[h], last.pre.hookPath)
        /\ (Ran("enable", h) /\ StubAndBackup(last.pre) /\ ~IsStub(last.pre.originalPath))
              => AtExactlyOne(fs[h], last.pre.originalPath)

C21_Witness ==
    \E h \in Hooks :
        /\ Ran("enable", h) /\ last.fault = KilledBeforeRestore
        /\ StubAndBackup(last.pre) /\ ~IsStub(last.pre.originalPath)
        /\ ~exists(fs[h].hookPath)
        /\ fs[h].originalPath = last.pre.originalPath

\* C22: enable removes or replaces <name>.py only when it is a stub: when
\* <name>.py.original exists and <name>.py holds non-stub content, the file
\* at <name>.py after the enable is the one that was there before.
C22_EnableSparesRealLogic ==
    \A h \in Hooks :
        ( /\ Ran("enable", h)
          /\ exists(last.pre.originalPath)
          /\ exists(last.pre.hookPath) /\ ~IsStub(last.pre.hookPath) )
            => fs[h].hookPath = last.pre.hookPath

\* the state of a hook as the three files define it
Classification(d) ==
    IF \/ exists(d.originalPath)
       \/ IsStub(d.hookPath)
       \/ (~exists(d.hookPath) /\ exists(d.disabledPath))
    THEN "DISABLED"
    ELSE IF exists(d.hookPath) THEN "ACTIVE"
    ELSE "ABSENT"

\* C23: what list shows for a hook is its classification: DISABLED exactly
\* when <name>.py.original exists, or <name>.py is a stub, or <name>.py is
\* missing and <name>.py.disabled exists; ACTIVE exactly when <name>.py is
\* not a stub and <name>.py.original is missing; ABSENT exactly when none
\* of the three files exists.
C23_ListIsClassification ==
    \A h \in Hooks :
        Ran("list", h) => last.msg = Classification(last.pre)

\* C24: a remove whose confirmation prompt is declined (the default answer)
\* leaves the three files of the hook exactly as they were, and the state
\* list shows for the hook is unchanged.
C24_RemoveNeedsConfirmation ==
    \A h \in Hooks :
        (Ran("remove", h) /\ last.arg = "no")
            => /\ fs[h] = last.pre
               /\ last.msg = "cancelled"
               /\ listHooks(fs[h]) = listHooks(last.pre)

C24_Witness ==
    \E h \in Hooks :
        /\ Ran("remove", h) /\ last.arg = "no"
        /\ StubAndBackup(last.pre) /\ exists(last.pre.disabledPath)
        /\ fs[h] = last.pre

\* C25: a create of a hook that has any file already leaves every file of
\* the hook unchanged.
C25_CreateOnlyWhenAbsent ==
    \A h \in Hooks :
        (Ran("create", h) /\ last.pre # EmptyDir) => fs[h] = last.pre

\* C26: a run of the migration script keeps, for every hook, each
\* implementation (non-stub content) that was at one of the hook's three
\* paths on one of them, and leaves hooks without <name>.py.disabled as
\* they were.
C26_MigrationKeepsLogic ==
    [][ last'.cmd = "migrate" =>
          \A h \in DOMAIN fs :
              /\ RealLogic(fs[h]) \subseteq RealLogic(fs'[h])
              /\ ~exists(fs[h].disabledPath) => fs'[h] = fs[h] ]_vars

\* C27: the indicator shown for a hook in the "Get info about a specific
\* hook" selection is the one list shows for the same files.
C27_InfoAgreesWithList ==
    \A h \in Hooks :
        Ran("info", h) => last.msg = listHooks(last.pre)

\* what edit is to open for a hook in each state: the backup of a hook
\* disabled by stub and backup, the legacy file of a legacy-disabled hook,
\* nothing for a stub without backup, <name>.py for an active hook
EditTarget(d) ==
    IF exists(d.originalPath) THEN "originalPath"
    ELSE IF IsStub(d.hookPath) THEN "stub_note"
    ELSE IF exists(d.hookPath) THEN "hookPath"
    ELSE IF exists(d.disabledPath) THEN "disabledPath"
    ELSE "not_found"

\* C28: edit never opens a stub: it opens <name>.py.original for a hook
\* disabled by stub and backup, <name>.py.disabled for a legacy-disabled
\* hook, nothing for a stub without backup, <name>.py for an active hook,
\* and reports not found for a hook without files.
C28_EditNeverOpensStub ==
    \A h \in Hooks :
        Ran("edit", h)
            => /\ last.msg = EditTarget(last.pre)
               /\ last.msg \in Paths => ~IsStub(last.pre[last.msg])

C30_MenuReturns ==
    [][ AtPrompt =>
          \/ running'[1] = MenuSession
          \/ (last'.cmd = "exit" /\ last'.code = ExitOk) ]_vars

====
